---- MODULE Spec2Model ----
(***************************************************************************)
(* ROI Marker and Copier (roi_processor.py): the two-phase slice selector  *)
(* (mark_slice) and the ROI range engine (process_all_rois and             *)
(* _copy_roi_files), with the input folders and the output tree they work  *)
(* on.                                                                     *)
(*                                                                         *)
(* A filename is the sequence of its characters; a slice index is 0-based  *)
(* as in the code, so the entry at index i of image_files is               *)
(* image_files[i + 1] here.                                                *)
(***************************************************************************)
EXTENDS Integers, Sequences, FiniteSets, TLC

\* ------------------------------------------------------------------------
\* Program constants
\* ------------------------------------------------------------------------
ROI_1_CONFIG == [name |-> "50-100_distal_TF", base |-> "distal", skip |-> 50, copy |-> 50]

ROI_2_CONFIG == [name |-> "450-500_distal_TF", base |-> "distal", skip |-> 450, copy |-> 50]

ROI_3_CONFIG == [name |-> "0-300_proximal_TF", base |-> "proximal", skip |-> 0, count |-> 300]

ROI_4_CONFIG == [name |-> "40-90_proximal_TF", base |-> "proximal", skip |-> 40, count |-> 50]

DefaultRoiConfigs == <<ROI_1_CONFIG, ROI_2_CONFIG, ROI_3_CONFIG, ROI_4_CONFIG>>

\* ------------------------------------------------------------------------
\* Bounds of the model
\* ------------------------------------------------------------------------
\* Number of slices of the large input folder (all four default ROIs fit).
LargeStack == 601

\* Number of slices of the short input folder (the second distal ROI and the
\* long proximal ROI never fit).
ShortStack == 120

\* The slice number of the first file of the short folder.
ShortFirst == 550

\* Stacks longer than DenseLimit are marked at sampled slider positions only.
DenseLimit == 5

\* Sampled slider positions: the multiples of SliderStride, the position
\* before each, and the last slice.
SliderStride == 50

\* start_processing opens the selector at most MaxSessions times when the
\* second folder is the small series, at most MaxLongSessions times otherwise.
MaxLongSessions == 1

MaxSessions == 2

\* An injected copy failure hits one of the first MaxFailAt copies of an ROI.
MaxFailAt == 2

\* The largest skip and count of the ROI definitions _copy_roi_files is called
\* on directly, and the longest small stack.
MaxSkip == 2

MaxCount == 2

MaxSmallStack == 4

\* SpecSort: the largest number of files of a listed folder.
MaxListing == 3

VARIABLES
    input_folder_path,   \* self.input_folder_path ("" = not chosen)
    output_folder_path,  \* self.output_folder_path ("" = not chosen)
    image_files,         \* self.image_files
    distal_index,        \* self.distal_index
    proximal_index,      \* self.proximal_index
    current_state,       \* self.current_state
    viewer_window,       \* self.viewer_window: "None", "open", "destroyed"
    mark_button,         \* state of self.mark_button
    slider_state,        \* state of self.slider
    all_roi_configs,     \* the list process_all_rois iterates over
    in_dirs,             \* input folder -> its files (the environment)
    out_dirs,            \* directories under the output roots
    out_files,           \* files under the output roots
    pc,                  \* "idle", "engine" (in the loop), "raised"
    roi_k,               \* position of the loop of process_all_rois
    results,             \* the local list results (empty outside the engine)
    start_index,         \* local start_index of the last _copy_roi_files
    end_index,           \* local end_index of the last _copy_roi_files
    dialog,              \* the last messagebox shown
    sessions,            \* number of selector sessions (open_image_viewer calls)
    engine_calls,        \* process_all_rois calls since the viewer opened
    n_success,           \* "Success!" dialogs since the viewer opened
    n_error,             \* critical-error dialogs since the viewer opened
    report,              \* the results joined into the last "Success!" dialog
    exc,                 \* the exception in flight in process_all_rois,
                         \* or raised by a direct call of _copy_roi_files
    listed_folder,       \* history: the folder whose listing is image_files
    distal_at,           \* history: value of sessions when distal_index was set
    proximal_at,         \* history: the same for proximal_index
    returned             \* what the last direct call of _copy_roi_files
                         \* returned (<<>>: none was made, or it raised)

vars == <<input_folder_path, output_folder_path, image_files, distal_index,
          proximal_index, current_state, viewer_window, mark_button,
          slider_state, all_roi_configs, in_dirs, out_dirs, out_files, pc,
          roi_k, results, start_index, end_index, dialog, sessions,
          engine_calls, n_success, n_error, report, exc, listed_folder,
          distal_at, proximal_at, returned>>

\* ------------------------------------------------------------------------
\* The environment: input folders, output root
\* ------------------------------------------------------------------------
LargeFolder == "Sample12 Registered"

ShortFolder == "Sample7"

\* A folder without any .tif/.tiff file, and a folder that was removed after
\* it was chosen (os.listdir raises).
EmptyFolder == "Empty"

RemovedFolder == "Removed"

InputFolders == {LargeFolder, ShortFolder, EmptyFolder, RemovedFolder}

OutputFolders == {"out"}

\* An input folder of kind "series" holds n files whose slice numbers are
\* first .. first+n-1.
LargeDir == [kind |-> "series", first |-> 1, n |-> LargeStack]

ShortDir == [kind |-> "series", first |-> ShortFirst, n |-> ShortStack]

SmallDirs == [kind : {"series"}, first : {1}, n : 1..MaxSmallStack]

\* A second small folder, whose filenames overlap those of the first.
OtherSmallDir == [kind |-> "series", first |-> 2, n |-> 2]

\* The content of EmptyFolder and of RemovedFolder.
EmptyDir == [kind |-> "series", first |-> 1, n |-> 0]

RemovedDir == [kind |-> "removed"]

\* Filenames of the folders of kind "listing": zero padding, upper-case and
\* .tiff extensions, digits elsewhere in the name, digits followed by ".tif"
\* before the extension, a name without a number and a file that is not an
\* image.
SortNames ==
    {<<"s", "9", ".", "T", "I", "F">>,
     <<"s", "0", "1", "0", ".", "t", "i", "f">>,
     <<"2", "s", "1", ".", "t", "i", "f">>,
     <<"s", "0", ".", "t", "i", "f", "f">>,
     <<"a", "9", ".", "t", "i", "f", "2", ".", "t", "i", "f">>,
     <<"b", "3", ".", "t", "i", "f">>,
     <<"s", ".", "t", "i", "f">>,
     <<"s", "3", ".", "t", "x", "t">>}

\* The listings os.listdir can return: up to MaxListing names, in any order.
Listings ==
    {L \in UNION {[1..k -> SortNames] : k \in 0..MaxListing} :
        \A i, j \in 1..Len(L) : i # j => L[i] # L[j]}

ListingDirs == [kind : {"listing"}, files : Listings]

AllDirs == {LargeDir, ShortDir, OtherSmallDir, EmptyDir, RemovedDir}
               \cup SmallDirs \cup ListingDirs

\* Generic ROI definitions of both shapes.
GenericRoiConfigs ==
    [name : {"roi"}, base : {"distal"}, skip : 0..MaxSkip, copy : 0..MaxCount]
        \cup [name : {"roi"}, base : {"proximal"}, skip : 0..MaxSkip,
              count : 0..MaxCount]

\* ------------------------------------------------------------------------
\* Filenames: the extension filter and sort_key
\* ------------------------------------------------------------------------
Digits == {"0", "1", "2", "3", "4", "5", "6", "7", "8", "9"}

\* The characters "0" .. "9" in order: DigitChars[d + 1] is the digit d.
DigitChars == <<"0", "1", "2", "3", "4", "5", "6", "7", "8", "9">>

\* The value of a digit character.
DigitValue(c) == (CHOOSE i \in 1..10 : DigitChars[i] = c) - 1

RECURSIVE int(_)
\* int(str) of a string of decimal digits: leading zeros do not count.
int(ds) ==
    IF ds = <<>> THEN 0
    ELSE 10 * int(SubSeq(ds, 1, Len(ds) - 1)) + DigitValue(ds[Len(ds)])

\* str.lower() on one character (the upper-case letters of an extension).
LowerChar(c) ==
    CASE c = "T" -> "t"
      [] c = "I" -> "i"
      [] c = "F" -> "f"
      [] OTHER -> c

\* str.lower()
lower(name) == [i \in 1..Len(name) |-> LowerChar(name[i])]

\* The string pat occurs in name at position i (1-based).
OccursAt(name, i, pat) ==
    /\ i + Len(pat) - 1 <= Len(name)
    /\ SubSeq(name, i, i + Len(pat) - 1) = pat

\* str.endswith
endswith(name, suffix) ==
    /\ Len(suffix) <= Len(name)
    /\ OccursAt(name, Len(name) - Len(suffix) + 1, suffix)

\* The filter of the listing: f.lower().endswith(('.tif', '.tiff'))
IsTiff(f) ==
    \/ endswith(lower(f), <<".", "t", "i", "f">>)
    \/ endswith(lower(f), <<".", "t", "i", "f", "f">>)

\* The smallest element of a non-empty set of integers.
Least(S) == CHOOSE x \in S : \A y \in S : x <= y

\* The last position of the run of digits that holds position i.
RunEnd(name, i) ==
    LET after == {k \in i..Len(name) : name[k] \notin Digits}
    IN IF after = {} THEN Len(name) ELSE Least(after) - 1

\* re.search(r'(\d+)\.tif', filename, re.IGNORECASE) matches from position i:
\* a digit, the rest of its run of digits, then ".tif" in any case.
MatchesAt(filename, i) ==
    /\ filename[i] \in Digits
    /\ OccursAt(lower(filename), RunEnd(filename, i) + 1,
                <<".", "t", "i", "f">>)

\* sort_key: int() of group 1 of the leftmost match, 0 without a match.
sort_key(filename) ==
    LET starts == {i \in 1..Len(filename) : MatchesAt(filename, i)}
    IN IF starts = {} THEN 0
       ELSE int(SubSeq(filename, Least(starts),
                       RunEnd(filename, Least(starts))))

\* ------------------------------------------------------------------------
\* Input folders: os.listdir and the sort
\* ------------------------------------------------------------------------
\* The file of slice number k in a folder of kind "series": s, the number on
\* four digits, .tif.
SeriesFileName(k) ==
    <<"s", DigitChars[((k \div 1000) % 10) + 1],
      DigitChars[((k \div 100) % 10) + 1], DigitChars[((k \div 10) % 10) + 1],
      DigitChars[(k % 10) + 1], ".", "t", "i", "f">>

\* os.listdir raises (the folder does not exist any more).
ListDirRaises(d) == d.kind = "removed"

\* What os.listdir returns for a folder of kind "listing", in the order it
\* returns it.
RawListing(d) == d.files

\* The filename list after files.sort(key=sort_key) for a folder of kind
\* "series", whatever the order in which os.listdir returned it: every name
\* of a series passes the extension filter and its key is its slice number,
\* so the keys are pairwise distinct and each order sorts to this list.
SortedSeries(d) == [i \in 1..d.n |-> SeriesFileName(d.first + i - 1)]

\* The set of the elements of a sequence.
Range(seq) == {seq[i] : i \in 1..Len(seq)}

\* The listing filtered on the extension (the list comprehension).
ListDir(d) == SelectSeq(RawListing(d), IsTiff)

\* The names of the files in a folder.
FolderNames(d) ==
    IF d.kind = "removed" THEN {}
    ELSE IF d.kind = "listing" THEN Range(RawListing(d))
    ELSE {SeriesFileName(k) : k \in d.first .. (d.first + d.n - 1)}

RECURSIVE SortFrom(_, _, _)
\* The files of the list L, whose keys are in lo..hi, in increasing order of
\* key; files of equal key stay in the order of L (list.sort is stable).
SortFrom(L, lo, hi) ==
    IF L = <<>> \/ lo >= hi THEN L
    ELSE LET mid == (lo + hi) \div 2
         IN SortFrom(SelectSeq(L, LAMBDA f : sort_key(f) <= mid), lo, mid)
              \o SortFrom(SelectSeq(L, LAMBDA f : sort_key(f) > mid),
                          mid + 1, hi)

\* files.sort(key=sort_key)
SortFiles(L) ==
    IF L = <<>> THEN <<>>
    ELSE LET keys == {sort_key(f) : f \in Range(L)}
             lo == CHOOSE k \in keys : \A x \in keys : k <= x
             hi == CHOOSE k \in keys : \A x \in keys : k >= x
         IN SortFrom(L, lo, hi)

\* The sorted listing of each folder content of the model (combined with the
\* empty function: tabulated once).
SortedListing ==
    [d \in AllDirs |-> IF d.kind = "removed" THEN <<>>
                       ELSE IF d.kind = "listing" THEN SortFiles(ListDir(d))
                       ELSE SortedSeries(d)] @@ <<>>

\* The names of the files of each folder content of the model (tabulated
\* once).
FileNames == [d \in AllDirs |-> FolderNames(d)] @@ <<>>

\* The folder cannot be listed, or holds no .tif/.tiff file ("not files").
NoListing(d) == ListDirRaises(d) \/ SortedListing[d] = <<>>

\* os.path.basename followed by re.sub(r'\sregistered$', '', ..., IGNORECASE).
ImageFolderName(folder) ==
    IF folder = "Sample12 Registered" THEN "Sample12" ELSE folder

\* The positions the slider can be at when Mark is clicked: 0 .. n-1, sampled
\* for long stacks.
SliderPositions(n) ==
    IF n <= DenseLimit THEN 0 .. (n - 1)
    ELSE {i \in 0 .. (n - 1) :
            \/ i % SliderStride = 0
            \/ i % SliderStride = SliderStride - 1
            \/ i = n - 1}

\* ------------------------------------------------------------------------
\* Range computation and bounds check of _copy_roi_files
\* ------------------------------------------------------------------------
\* Mutant of RoiRange: the distal anchor slice itself is counted in the skip,
\* and the proximal anchor slice is left out of the range.
RoiRange_OffByOne(cfg, distal, proximal) ==
    IF cfg.base = "proximal"
    THEN LET e == proximal - cfg.skip IN <<e - cfg.count, e>>
    ELSE LET s == distal + cfg.skip IN <<s, s + cfg.copy>>

\* <<start_index, end_index>> of an ROI definition.
RoiRange(cfg, distal, proximal) ==
    IF cfg.base = "proximal"
    THEN LET e == proximal + 1 - cfg.skip IN <<e - cfg.count, e>>
    ELSE LET s == distal + cfg.skip + 1 IN <<s, s + cfg.copy>>

\* Mutant of OutOfBounds: the test on start_index against the stack length is
\* left out.
OutOfBounds_NoStartTest(start, end, n) == end > n \/ start < 0

\* Mutant of OutOfBounds: the test on end_index is left out.
OutOfBounds_NoEndTest(start, end, n) == start >= n \/ start < 0

\* Mutant of OutOfBounds: a range that ends on the last slice is rejected.
OutOfBounds_EndInclusive(start, end, n) == start >= n \/ end >= n \/ start < 0

\* The out-of-bounds test.
OutOfBounds(start, end, n) == start >= n \/ end > n \/ start < 0

\* The destination directory of an ROI and its ancestors under the root.
FinalOutputPath(root, cfg, folder) == <<root, cfg.name, ImageFolderName(folder)>>

\* os.makedirs(path, exist_ok=True)
MakeDirs(dirs, path) == dirs \cup {SubSeq(path, 1, 2), path}

\* os.makedirs that raises on the directory number made + 1 of the path: the
\* ancestors it made before stay.
MakeDirsFailed(dirs, path, made) ==
    IF made = 0 THEN dirs ELSE dirs \cup {SubSeq(path, 1, 2)}

\* Mutant of MakedirsRaises: exist_ok is not honoured.
MakedirsRaises_ExistNotOk(dirs, path, exist_ok) == path \in dirs

\* os.makedirs raises FileExistsError: the directory exists and exist_ok is
\* false.
MakedirsRaises(dirs, path, exist_ok) == ~exist_ok /\ path \in dirs

\* Mutant of DirsAfter: the destination directory is created before the
\* bounds check.
DirsAfter_BeforeCheck(out_of_bounds, dirs, path) == MakeDirs(dirs, path)

\* The directories after the bounds check and, for an ROI in bounds, makedirs.
DirsAfter(out_of_bounds, dirs, path) ==
    IF out_of_bounds THEN dirs ELSE MakeDirs(dirs, path)

\* Mutant of AppendResult: a skipped ROI is left out of the results.
AppendResult_DropSkipped(res, r) ==
    IF r.kind = "Skipped" THEN res ELSE Append(res, r)

\* results.append(...) in the loop of process_all_rois.
AppendResult(res, r) == Append(res, r)

\* The result strings.
Skipped(cfg) == [name |-> cfg.name, kind |-> "Skipped", count |-> 0, folder |-> ""]

Copied(cfg, n, folder) ==
    [name |-> cfg.name, kind |-> "Copied", count |-> n, folder |-> ImageFolderName(folder)]

\* Mutant of CopyAll: the output tree is emptied before an ROI is copied.
CopyAll_EmptiesTree(files, names, src, path) ==
    {[dir |-> path, name |-> nm, from |-> src] : nm \in names}

\* shutil.copy2 of the given filenames from folder src into directory path:
\* an existing destination file of the same name is replaced.
CopyAll(files, names, src, path) ==
    {f \in files : ~(f.dir = path /\ f.name \in names)}
        \cup {[dir |-> path, name |-> nm, from |-> src] : nm \in names}

\* Injected I/O faults of one _copy_roi_files call that copies n files:
\* none; os.makedirs raises after it has made `at` of the two directories of
\* the path (the ROI directory, then the folder directory in it); the
\* shutil.copy2 number `at` raises, either before it has created its
\* destination ("copy": the source cannot be opened) or after ("write": the
\* destination file stays in the directory, incomplete).  The failing copy
\* is one of the first MaxFailAt or the last one.
Faults(n) == {[kind |-> "none", at |-> 0]}
                 \cup [kind : {"makedirs"}, at : 0..1]
                 \cup [kind : {"copy", "write"},
                       at : {k \in 1..n : k <= MaxFailAt \/ k = n}]

\* ------------------------------------------------------------------------
\* Initial state: ROIMarkerApp.__init__
\* ------------------------------------------------------------------------
AppInit ==
    /\ input_folder_path = ""
    /\ output_folder_path = ""
    /\ image_files = <<>>
    /\ distal_index = -1
    /\ proximal_index = -1
    /\ current_state = "SELECT_DISTAL"
    /\ viewer_window = "None"
    /\ mark_button = "None"
    /\ slider_state = "None"
    /\ pc = "idle"
    /\ roi_k = 0
    /\ results = <<>>
    /\ start_index = 0
    /\ end_index = 0
    /\ dialog = "none"
    /\ sessions = 0
    /\ engine_calls = 0
    /\ n_success = 0
    /\ n_error = 0
    /\ report = <<>>
    /\ exc = "none"
    /\ listed_folder = ""
    /\ distal_at = 0
    /\ proximal_at = 0
    /\ returned = <<>>

\* The application as shipped, on a long and a short image series.
Init ==
    /\ AppInit
    /\ all_roi_configs = DefaultRoiConfigs
    /\ out_dirs = {}
    /\ out_files = {}
    /\ in_dirs = (LargeFolder :> LargeDir) @@ (ShortFolder :> ShortDir)
                   @@ (EmptyFolder :> EmptyDir) @@ (RemovedFolder :> RemovedDir)

\* A file that is in a destination directory before the first run and is
\* not a copy of a slice.
UnrelatedFile ==
    [dir |-> <<"out", ROI_1_CONFIG.name, "Sample12">>,
     name |-> <<"n", "o", "t", "e", "s", ".", "t", "x", "t">>,
     from |-> "elsewhere"]

\* The application as shipped, on a series of 1 .. MaxSmallStack or of
\* ShortStack files and a second, small series; the output root is empty, or
\* holds a destination directory with a file in it.
InitGeneric ==
    /\ AppInit
    /\ all_roi_configs = DefaultRoiConfigs
    /\ \/ out_dirs = {} /\ out_files = {}
       \/ /\ out_dirs = MakeDirs({}, UnrelatedFile.dir)
          /\ out_files = {UnrelatedFile}
    /\ \E d \in SmallDirs \cup {ShortDir} :
         in_dirs = (LargeFolder :> d) @@ (ShortFolder :> OtherSmallDir)

\* The application after a session on a small series that ended with its
\* report (the four shipped ROIs skipped): the state in which the calls of
\* _copy_roi_files on other ROI definitions are made.
InitRange ==
    /\ \E d \in SmallDirs :
         /\ in_dirs = (LargeFolder :> d) @@ (ShortFolder :> OtherSmallDir)
         /\ image_files = SortedListing[d]
    /\ \E i, j \in 0 .. (MaxSmallStack - 1) :
         /\ i < j
         /\ j < Len(image_files)
         /\ distal_index = i
         /\ proximal_index = j
    /\ input_folder_path = LargeFolder
    /\ output_folder_path = "out"
    /\ listed_folder = LargeFolder
    /\ all_roi_configs = DefaultRoiConfigs
    /\ current_state = "SELECT_PROXIMAL"
    /\ viewer_window = "destroyed"
    /\ mark_button = "disabled"
    /\ slider_state = "disabled"
    /\ out_dirs = {}
    /\ out_files = {}
    /\ pc = "idle"
    /\ roi_k = 0
    /\ results = <<>>
    /\ start_index = 0
    /\ end_index = 0
    /\ dialog = "success"
    /\ sessions = 1
    /\ engine_calls = 1
    /\ n_success = 1
    /\ n_error = 0
    /\ report = [k \in 1..4 |-> Skipped(DefaultRoiConfigs[k])]
    /\ exc = "none"
    /\ distal_at = 1
    /\ proximal_at = 1
    /\ returned = <<>>

\* The application as shipped, on a folder with any listing of up to
\* MaxListing of the names of SortNames or with a series of ShortStack files,
\* an empty folder and a removed one.
InitSort ==
    /\ AppInit
    /\ all_roi_configs = DefaultRoiConfigs
    /\ out_dirs = {}
    /\ out_files = {}
    /\ \E d \in ListingDirs \cup {ShortDir} :
         in_dirs = (LargeFolder :> d) @@ (EmptyFolder :> EmptyDir)
                       @@ (RemovedFolder :> RemovedDir)

\* ------------------------------------------------------------------------
\* Handlers of the main window
\* ------------------------------------------------------------------------
\* select_input_folder: folder_path "" is a cancelled dialog.
select_input_folder ==
    /\ pc = "idle"
    /\ \E folder_path \in DOMAIN in_dirs \cup {""} :
         input_folder_path' =
             IF folder_path # "" THEN folder_path ELSE input_folder_path
    /\ UNCHANGED <<output_folder_path, image_files, distal_index,
                   proximal_index, current_state, viewer_window, mark_button,
                   slider_state, all_roi_configs, in_dirs, out_dirs,
                   out_files, pc, roi_k, results, start_index, end_index,
                   dialog, sessions, engine_calls, n_success,
                   n_error, report, exc, listed_folder,
                   distal_at, proximal_at>>
    /\ UNCHANGED returned

\* select_output_folder
select_output_folder ==
    /\ pc = "idle"
    /\ \E folder_path \in OutputFolders \cup {""} :
         output_folder_path' =
             IF folder_path # "" THEN folder_path ELSE output_folder_path
    /\ UNCHANGED <<input_folder_path, image_files, distal_index,
                   proximal_index, current_state, viewer_window, mark_button,
                   slider_state, all_roi_configs, in_dirs, out_dirs,
                   out_files, pc, roi_k, results, start_index, end_index,
                   dialog, sessions, engine_calls, n_success,
                   n_error, report, exc, listed_folder,
                   distal_at, proximal_at>>
    /\ UNCHANGED returned

\* _check_paths: the Start button is enabled when both paths are set.
StartEnabled == input_folder_path # "" /\ output_folder_path # ""

\* The number of sessions explored.
SessionCap ==
    IF ShortFolder \in DOMAIN in_dirs /\ in_dirs[ShortFolder] = OtherSmallDir
    THEN MaxSessions ELSE MaxLongSessions

\* Mutant of StateAfterOpen: the phase of the earlier session is kept.
StateAfterOpen_Kept(state) == state

\* self.current_state after open_image_viewer.
StateAfterOpen(state) == "SELECT_DISTAL"

\* Mutant of ImageFilesAfter: the listing is stored before it is tested.
ImageFilesAfter_StoredFirst(old, files) == files

\* self.image_files after the listing was sorted: it is assigned only when
\* the listing is not empty.
ImageFilesAfter(old, files) == IF files = <<>> THEN old ELSE files

\* start_processing, with open_image_viewer when the folder holds images.
start_processing ==
    /\ pc = "idle"
    /\ StartEnabled
    /\ NoListing(in_dirs[input_folder_path]) \/ sessions < SessionCap
    /\ LET files == SortedListing[in_dirs[input_folder_path]] IN
         IF ListDirRaises(in_dirs[input_folder_path])
         THEN /\ dialog' = "error_read_folder"
              /\ UNCHANGED <<image_files, current_state, viewer_window,
                             mark_button, slider_state, engine_calls,
                             n_success, n_error, report, listed_folder,
                             sessions>>
         ELSE IF files = <<>>
         THEN /\ dialog' = "error_no_tiff"
              /\ image_files' = ImageFilesAfter(image_files, files)
              /\ UNCHANGED <<current_state, viewer_window,
                             mark_button, slider_state, engine_calls,
                             n_success, n_error, report, listed_folder,
                             sessions>>
         ELSE /\ image_files' = ImageFilesAfter(image_files, files)
              /\ viewer_window' = "open"
              /\ mark_button' = "normal"
              /\ slider_state' = "normal"
              /\ current_state' = StateAfterOpen(current_state)
              /\ dialog' = "none"
              /\ listed_folder' = input_folder_path
              /\ sessions' = sessions + 1
              /\ engine_calls' = 0
              /\ n_success' = 0
              /\ n_error' = 0
              /\ report' = <<>>
    /\ UNCHANGED <<input_folder_path, output_folder_path, distal_index,
                   proximal_index, all_roi_configs, in_dirs, out_dirs,
                   out_files, pc, roi_k, results, start_index, end_index,
                   exc, distal_at, proximal_at>>
    /\ UNCHANGED returned

\* ------------------------------------------------------------------------
\* The selector: mark_slice
\* ------------------------------------------------------------------------
\* The Mark button can be clicked.
MarkEnabled == pc = "idle" /\ viewer_window = "open" /\ mark_button = "normal"

\* Mutant of ConfigState: the widget keeps its state.
ConfigState_Ignored(old, new) == old

\* widget.config(state=new) on a widget whose state was old.
ConfigState(old, new) == new

\* Mutant of OrderingViolated: a proximal mark on the distal slice is accepted.
OrderingViolated_AcceptEqual(proximal, distal) == proximal < distal

\* Mutant of OrderingViolated: the slice next to the distal junction is
\* rejected as well.
OrderingViolated_OffByOne(proximal, distal) == proximal <= distal + 1

\* The ordering test of the proximal mark: TRUE when the mark is rejected.
OrderingViolated(proximal, distal) == proximal <= distal

mark_slice ==
    /\ MarkEnabled
    /\ \E current_index \in SliderPositions(Len(image_files)) :
         IF current_state = "SELECT_DISTAL"
         THEN /\ distal_index' = current_index
              /\ dialog' = "marked_distal"
              /\ current_state' = "SELECT_PROXIMAL"
              /\ distal_at' = sessions
              /\ UNCHANGED <<proximal_index, mark_button, slider_state, pc,
                             roi_k, results, engine_calls, proximal_at>>
         ELSE IF current_state = "SELECT_PROXIMAL"
         THEN /\ proximal_index' = current_index
              /\ proximal_at' = sessions
              /\ IF OrderingViolated(current_index, distal_index)
                 THEN /\ dialog' = "warning_order"
                      /\ UNCHANGED <<mark_button, slider_state, pc, roi_k,
                                     results, engine_calls>>
                 ELSE /\ dialog' = "marked_proximal"
                      /\ mark_button' = ConfigState(mark_button, "disabled")
                      /\ slider_state' = ConfigState(slider_state, "disabled")
                      /\ pc' = "engine"
                      /\ roi_k' = 1
                      /\ results' = <<>>
                      /\ engine_calls' = engine_calls + 1
              /\ UNCHANGED <<distal_index, current_state, distal_at>>
         ELSE UNCHANGED <<distal_index, proximal_index, current_state,
                          dialog, mark_button, slider_state, pc, roi_k,
                          results, engine_calls, distal_at, proximal_at>>
    /\ UNCHANGED <<input_folder_path, output_folder_path, image_files,
                   viewer_window, all_roi_configs, in_dirs, out_dirs,
                   out_files, start_index, end_index, sessions, n_success,
                   n_error, report, exc, listed_folder>>
    /\ UNCHANGED returned

\* ------------------------------------------------------------------------
\* The range engine: process_all_rois and _copy_roi_files
\* ------------------------------------------------------------------------
\* Mutant of FilesToCopy: the last slice of the range is left out.
FilesToCopy_DropLast(files, start, end) ==
    IF end - 1 > start THEN [j \in 1..(end - start - 1) |-> files[start + j]]
    ELSE <<>>

\* A slice bound as list slicing reads it on a list of n entries: a negative
\* bound counts from the end, and the result is clipped to 0 .. n.
SliceBound(i, n) ==
    IF i < 0 THEN (IF i + n < 0 THEN 0 ELSE i + n)
    ELSE (IF i > n THEN n ELSE i)

\* self.image_files[start:end]: the entries at the 0-based indices
\* start .. end-1 that exist.
FilesToCopy(files, start, end) ==
    LET s == SliceBound(start, Len(files))
        e == SliceBound(end, Len(files))
    IN IF e > s THEN [j \in 1..(e - s) |-> files[s + j]] ELSE <<>>

\* The 1-based position in files_to_copy of the copy that raises, 0 if none:
\* the injected fault, or a source file that is not in the input folder.
FailingCopy(to_copy, src_names, fault) ==
    LET bad == {j \in 1..Len(to_copy) : to_copy[j] \notin src_names}
                 \cup (IF fault.kind \in {"copy", "write"}
                       THEN {fault.at} ELSE {})
    IN IF bad = {} THEN 0 ELSE Least(bad)

\* Number of destination files the copy loop leaves: all of them when no
\* copy raises; otherwise those before the failing copy, and the destination
\* of the failing copy too when it raised after creating it.  A source file
\* that is missing makes shutil.copy2 raise before it opens the destination.
CopiesLeft(to_copy, src_names, fault) ==
    LET failing == FailingCopy(to_copy, src_names, fault)
    IN IF failing = 0 THEN Len(to_copy)
       ELSE IF /\ fault.kind = "write"
               /\ fault.at = failing
               /\ to_copy[failing] \in src_names
       THEN failing
       ELSE failing - 1

\* The faults that can hit the call of _copy_roi_files on roi_config: none
\* when the ROI is out of bounds (nothing is written), otherwise those of a
\* call that copies the files of the range.
FaultsOf(roi_config) ==
    LET rng == RoiRange(roi_config, distal_index, proximal_index)
    IN IF OutOfBounds(rng[1], rng[2], Len(image_files))
       THEN {[kind |-> "none", at |-> 0]}
       ELSE Faults(Len(FilesToCopy(image_files, rng[1], rng[2])))

\* _copy_roi_files(image_folder_name, roi_config) under a fault: its locals
\* start_index and end_index, the output tree it leaves, the exception it
\* raises ("none" when it returns) and the result it returns.
CopyRoiFiles(roi_config, fault) ==
    LET rng == RoiRange(roi_config, distal_index, proximal_index)
        path == FinalOutputPath(output_folder_path, roi_config,
                                input_folder_path)
        to_copy == FilesToCopy(image_files, rng[1], rng[2])
        src_names == FileNames[in_dirs[input_folder_path]]
        failing == FailingCopy(to_copy, src_names, fault)
        done == CopiesLeft(to_copy, src_names, fault)
        call == [start |-> rng[1], end |-> rng[2], dirs |-> out_dirs,
                 files |-> out_files, exc |-> "none",
                 result |-> Skipped(roi_config)]
    IN IF OutOfBounds(rng[1], rng[2], Len(image_files))
       THEN [call EXCEPT !.dirs = DirsAfter(TRUE, out_dirs, path)]
       ELSE IF MakedirsRaises(out_dirs, path, TRUE)
       THEN [call EXCEPT !.exc = "FileExistsError"]
       ELSE IF fault.kind = "makedirs"
       THEN [call EXCEPT !.dirs = MakeDirsFailed(out_dirs, path, fault.at),
                         !.exc = "OSError"]
       ELSE [call EXCEPT
                !.dirs = DirsAfter(FALSE, out_dirs, path),
                !.files = CopyAll(out_files, {to_copy[j] : j \in 1..done},
                                  input_folder_path, path),
                !.exc = IF failing # 0 THEN "OSError" ELSE "none",
                !.result = Copied(roi_config, Len(to_copy),
                                  input_folder_path)]

\* One iteration of the loop of process_all_rois: _copy_roi_files on the
\* next ROI definition, and results.append of what it returns.
copy_roi_files ==
    /\ pc = "engine"
    /\ roi_k <= Len(all_roi_configs)
    /\ \E fault \in FaultsOf(all_roi_configs[roi_k]) :
         LET call == CopyRoiFiles(all_roi_configs[roi_k], fault)
         IN /\ start_index' = call.start
            /\ end_index' = call.end
            /\ out_dirs' = call.dirs
            /\ out_files' = call.files
            /\ exc' = call.exc
            /\ IF call.exc # "none"
               THEN /\ pc' = "raised"
                    /\ UNCHANGED <<results, roi_k>>
               ELSE /\ results' = AppendResult(results, call.result)
                    /\ roi_k' = roi_k + 1
                    /\ pc' = pc
    /\ UNCHANGED <<input_folder_path, output_folder_path, image_files,
                   distal_index, proximal_index, current_state, viewer_window,
                   mark_button, slider_state, all_roi_configs, in_dirs,
                   dialog, sessions, engine_calls, n_success, n_error, report,
                   listed_folder,
                   distal_at, proximal_at>>
    /\ UNCHANGED returned

\* Mutant of ViewerAfterFinally: the viewer is left open.
ViewerAfterFinally_LeftOpen(w) == w

\* The finally clause of process_all_rois: the viewer, if any, is destroyed.
ViewerAfterFinally(w) == IF w # "None" THEN "destroyed" ELSE w

\* The end of process_all_rois after the loop: the report, then the finally
\* clause destroys the viewer.
show_report ==
    /\ pc = "engine"
    /\ roi_k > Len(all_roi_configs)
    /\ report' = results
    /\ dialog' = "success"
    /\ n_success' = n_success + 1
    /\ viewer_window' = ViewerAfterFinally(viewer_window)
    /\ pc' = "idle"
    /\ roi_k' = 0
    /\ results' = <<>>
    /\ start_index' = 0
    /\ end_index' = 0
    /\ UNCHANGED <<input_folder_path, output_folder_path, image_files,
                   distal_index, proximal_index, current_state, mark_button,
                   slider_state, all_roi_configs, in_dirs, out_dirs,
                   out_files, sessions, engine_calls, n_error, exc, listed_folder,
                   distal_at, proximal_at>>
    /\ UNCHANGED returned

\* The except clause of process_all_rois, then the finally clause.
show_error ==
    /\ pc = "raised"
    /\ dialog' = "critical_error"
    /\ exc' = "none"
    /\ n_error' = n_error + 1
    /\ viewer_window' = ViewerAfterFinally(viewer_window)
    /\ pc' = "idle"
    /\ roi_k' = 0
    /\ results' = <<>>
    /\ start_index' = 0
    /\ end_index' = 0
    /\ UNCHANGED <<input_folder_path, output_folder_path, image_files,
                   distal_index, proximal_index, current_state, mark_button,
                   slider_state, all_roi_configs, in_dirs, out_dirs,
                   out_files, sessions, engine_calls, n_success, report, listed_folder,
                   distal_at, proximal_at>>
    /\ UNCHANGED returned

\* _copy_roi_files called on its own, on any ROI definition of either shape,
\* when no handler runs: it returns its result or raises.
call_copy_roi_files ==
    /\ pc = "idle"
    /\ \E roi_config \in GenericRoiConfigs :
         \E fault \in FaultsOf(roi_config) :
           LET call == CopyRoiFiles(roi_config, fault)
           IN /\ start_index' = call.start
              /\ end_index' = call.end
              /\ out_dirs' = call.dirs
              /\ out_files' = call.files
              /\ exc' = call.exc
              /\ returned' = IF call.exc = "none" THEN <<call.result>>
                             ELSE <<>>
    /\ UNCHANGED <<input_folder_path, output_folder_path, image_files,
                   distal_index, proximal_index, current_state, viewer_window,
                   mark_button, slider_state, all_roi_configs, in_dirs, pc,
                   roi_k, results, dialog, sessions, engine_calls, n_success,
                   n_error, report, listed_folder, distal_at,
                   proximal_at>>

Next ==
    \/ select_input_folder
    \/ select_output_folder
    \/ start_processing
    \/ mark_slice
    \/ copy_roi_files
    \/ show_report
    \/ show_error

Spec == Init /\ [][Next]_vars

SpecGeneric == InitGeneric /\ [][Next]_vars

SpecSort == InitSort /\ [][Next]_vars

SpecRange == InitRange /\ [][call_copy_roi_files]_vars

\* ------------------------------------------------------------------------
\* Properties
\* ------------------------------------------------------------------------
\* process_all_rois is running (in its loop, or unwinding after an exception).
EngineRunning == pc \in {"engine", "raised"}

\* A call of _copy_roi_files has been made in the running invocation.
RoiCalled == pc = "raised" \/ (pc = "engine" /\ roi_k > 1)

\* The ROI definition of the last call of _copy_roi_files.
LastRoi == IF pc = "raised" THEN all_roi_configs[roi_k]
           ELSE all_roi_configs[roi_k - 1]

\* The last call of _copy_roi_files returned (it did not raise).
RoiReturned == pc = "engine" /\ roi_k > 1

\* C1: whenever the range engine runs, the indices it works on satisfy
\* proximal_index > distal_index (and both are slider positions of the stack).
C1_EngineOrdering ==
    EngineRunning =>
        /\ proximal_index > distal_index
        /\ distal_index \in 0 .. (Len(image_files) - 1)
        /\ proximal_index \in 0 .. (Len(image_files) - 1)

\* The engine is invoked in a second session, on the last slice as proximal
\* junction.
C1_Witness ==
    /\ pc = "engine"
    /\ roi_k = 1
    /\ sessions = 2
    /\ proximal_index = Len(image_files) - 1
    /\ distal_index = proximal_index - 1

\* C2: the range computed by _copy_roi_files is, for a distal anchor,
\* start = distal_index + skip + 1 and end = start + copy; for a proximal
\* anchor, end = proximal_index + 1 - skip and start = end - count. With
\* distal 99, skip 50, copy 50 it is [150, 200); with proximal 499, skip 0,
\* count 300 it is [200, 500).
C2_RangeFormula ==
    RoiCalled =>
        /\ LastRoi.base = "distal" =>
             /\ start_index = distal_index + LastRoi.skip + 1
             /\ end_index = start_index + LastRoi.copy
        /\ LastRoi.base = "proximal" =>
             /\ end_index = proximal_index + 1 - LastRoi.skip
             /\ start_index = end_index - LastRoi.count
        /\ (LastRoi = ROI_1_CONFIG /\ distal_index = 99) =>
             (start_index = 150 /\ end_index = 200)
        /\ (LastRoi = ROI_3_CONFIG /\ proximal_index = 499) =>
             (start_index = 200 /\ end_index = 500)

\* The third default ROI was computed for distal 99 and proximal 499.
C2_Witness ==
    /\ pc = "engine"
    /\ roi_k = 4
    /\ distal_index = 99
    /\ proximal_index = 499
    /\ start_index = 200
    /\ end_index = 500
    /\ results[1].kind = "Copied"

\* The last direct call of _copy_roi_files has returned.
CallReturned == returned # <<>>

\* C3 as stated: an ROI is treated as valid (Copied) if and only if
\* 0 <= start and end <= len(SliceStack).
C3_ValidIffWithinStack ==
    CallReturned =>
        (returned[1].kind = "Copied"
            <=> (0 <= start_index /\ end_index <= Len(image_files)))

\* C3 amended: an ROI with non-negative skip and count is Copied if and only
\* if 0 <= start < len(SliceStack) and end <= len(SliceStack); an empty range
\* that starts inside the stack is Copied with zero files, the empty range
\* start = end = len(SliceStack) is Skipped.
C3_ValidIffStartInsideStack ==
    CallReturned =>
        /\ returned[1].kind = "Copied"
             <=> /\ 0 <= start_index
                 /\ start_index < Len(image_files)
                 /\ end_index <= Len(image_files)
        /\ (returned[1].kind = "Copied" /\ start_index = end_index)
             => returned[1].count = 0
        /\ (start_index = end_index /\ start_index = Len(image_files))
             => returned[1].kind = "Skipped"

\* An empty range inside the stack was copied (zero files) by a call that
\* left the directory and no file behind.
C3_Witness ==
    /\ CallReturned
    /\ returned[1].kind = "Copied"
    /\ returned[1].count = 0
    /\ start_index = end_index
    /\ out_dirs # {}
    /\ out_files = {}

\* process_all_rois was called from the open selector and has returned.
EngineReturned == pc = "idle" /\ engine_calls >= 1

\* The last dialog is the error of a start_processing that failed (after the
\* engine returned, it has replaced the dialog the engine ended with).
StartFailed == dialog \in {"error_no_tiff", "error_read_folder"}

\* The loop of process_all_rois is over and no call raised.
LoopDone == pc = "engine" /\ roi_k > Len(all_roi_configs)

\* The report has one entry per configured ROI, in the configured order.
ReportComplete(rep) ==
    /\ Len(rep) = Len(all_roi_configs)
    /\ \A k \in 1..Len(rep) : rep[k].name = all_roi_configs[k].name

\* The destination directory of the k-th ROI in the running invocation.
PathOf(k) ==
    FinalOutputPath(output_folder_path, all_roi_configs[k], input_folder_path)

\* The filenames of the output tree in directory path.
NamesIn(path) == {f.name : f \in {g \in out_files : g.dir = path}}

\* The directory of the k-th ROI exists and holds a copy, taken from the
\* input folder, of every slice of the ROI's range.
RoiInPlace(k) ==
    LET rng == RoiRange(all_roi_configs[k], distal_index, proximal_index)
    IN /\ PathOf(k) \in out_dirs
       /\ \A i \in rng[1] .. (rng[2] - 1) :
            [dir |-> PathOf(k), name |-> image_files[i + 1],
             from |-> input_folder_path] \in out_files

\* The range of the k-th ROI lies within the stack.
InStack(k) ==
    LET rng == RoiRange(all_roi_configs[k], distal_index, proximal_index)
    IN 0 <= rng[1] /\ rng[2] <= Len(image_files)

\* C4 as stated: every invocation of the range engine ends with a report
\* that has exactly one entry per configured ROI, in the configured order.
C4_EveryRunReports ==
    EngineReturned => (n_success = 1 /\ ReportComplete(report))

\* C4 amended: every invocation that no I/O failure aborts ends with a report
\* that has exactly one entry per configured ROI, in the configured order,
\* whatever the number of skipped ROIs; an aborted invocation shows no report.
C4_ReportComplete ==
    /\ (EngineReturned /\ n_error = 0) =>
           /\ n_success = 1
           /\ dialog = "success" \/ StartFailed
           /\ ReportComplete(report)
    /\ (EngineReturned /\ n_error > 0) => (n_success = 0 /\ report = <<>>)
    /\ LoopDone => ReportComplete(results)

\* A report with two skipped ROIs followed by two copied ones.
C4_Witness ==
    /\ EngineReturned
    /\ dialog = "success"
    /\ report[1].kind = "Skipped"
    /\ report[2].kind = "Skipped"
    /\ report[3].kind = "Copied"
    /\ report[4].kind = "Copied"

\* C5: when a copy of ROI k fails the run aborts: no later ROI is processed,
\* what was written for the earlier ROIs and for k stays in place, no report
\* is shown and exactly one fatal error is.
C5_AbortOnCopyFailure ==
    /\ [](pc = "raised" =>
            /\ roi_k <= Len(all_roi_configs)
            /\ Len(results) = roi_k - 1
            /\ n_success = 0 /\ n_error = 0
            /\ \A j \in 1 .. (roi_k - 1) :
                 results[j].kind = "Copied" => RoiInPlace(j))
    /\ []((EngineReturned /\ n_error > 0) =>
            /\ n_error = 1 /\ n_success = 0
            /\ report = <<>>
            /\ dialog = "critical_error" \/ StartFailed
            /\ viewer_window = "destroyed")
    /\ [][pc = "raised" =>
            /\ pc' = "idle"
            /\ out_files' = out_files /\ out_dirs' = out_dirs
            /\ n_error' = n_error + 1]_vars

\* A copy of the third ROI failed and left two files of it: the first ROI
\* is copied, the third partly.
C5_Witness ==
    /\ pc = "raised"
    /\ exc = "OSError"
    /\ roi_k = 3
    /\ results[1].kind = "Copied"
    /\ Cardinality(NamesIn(PathOf(3))) = 2

\* C6: an out-of-bounds ROI is recorded as Skipped and does not stop the run:
\* the ROIs are processed in the declared order and, in a run without I/O
\* failure, every ROI whose range is in bounds is copied.
C6_SkipDoesNotStopRun ==
    /\ pc = "engine" =>
         /\ Len(results) = roi_k - 1
         /\ \A j \in 1..Len(results) : results[j].name = all_roi_configs[j].name
    /\ LoopDone =>
         \A k \in 1..Len(all_roi_configs) :
             IF InStack(k)
             THEN results[k].kind = "Copied" /\ RoiInPlace(k)
             ELSE results[k].kind = "Skipped"

\* The two ROIs in the middle were skipped, the first and the last copied.
C6_Witness ==
    /\ LoopDone
    /\ results[1].kind = "Copied"
    /\ results[2].kind = "Skipped"
    /\ results[3].kind = "Skipped"
    /\ results[4].kind = "Copied"
    /\ RoiInPlace(4)

\* C7: processing an ROI that is skipped as out of bounds changes neither the
\* directories nor the files of the output tree.
C7_SkipLeavesTreeUnchanged ==
    [][(/\ pc = "engine"
        /\ pc' = "engine"
        /\ roi_k' = roi_k + 1
        /\ Len(results') = roi_k
        /\ results'[roi_k].kind = "Skipped")
       => (out_dirs' = out_dirs /\ out_files' = out_files)]_vars

\* An ROI was skipped after an earlier one was copied; it has no directory.
C7_Witness ==
    /\ RoiReturned
    /\ results[roi_k - 1].kind = "Skipped"
    /\ out_files # {}
    /\ PathOf(roi_k - 1) \notin out_dirs

\* C8: whenever distal_index and proximal_index are both set,
\* proximal_index > distal_index.
C8_BothSetOrdered ==
    (distal_index # -1 /\ proximal_index # -1) => proximal_index > distal_index

\* C9: in a selector session the range engine is invoked at most once; once
\* it is invoked no mark can be made in the session, and when it has returned
\* (with a report or a fatal error) the viewer is destroyed and the Start
\* button is enabled.
C9_OneEngineRunPerSession ==
    /\ engine_calls <= 1
    /\ engine_calls = 1 => ~MarkEnabled
    /\ engine_calls = 0 => (pc = "idle" /\ n_success = 0 /\ n_error = 0)
    /\ EngineReturned =>
         /\ viewer_window = "destroyed"
         /\ n_success + n_error = 1
         /\ dialog \in {"success", "critical_error"} \/ StartFailed
         /\ StartEnabled

\* The engine returned with a fatal error and a new session can be started.
C9_Witness ==
    /\ EngineReturned
    /\ dialog = "critical_error"
    /\ ENABLED start_processing

\* C10: a call of _copy_roi_files that returns Copied has written exactly
\* the stack entries at indices start .. end-1, each under its own name, into
\* the ROI's directory, and reports end - start files.
C10_CopiedFiles ==
    [][(/\ pc = "engine"
        /\ pc' = "engine"
        /\ roi_k' = roi_k + 1
        /\ Len(results') = roi_k
        /\ results'[roi_k].kind = "Copied")
       => LET expected == {image_files[i + 1] :
                              i \in start_index' .. (end_index' - 1)}
          IN /\ results'[roi_k].count = end_index' - start_index'
             /\ Cardinality(expected) = end_index' - start_index'
             /\ PathOf(roi_k) \in out_dirs'
             /\ \A nm \in expected :
                  [dir |-> PathOf(roi_k), name |-> nm,
                   from |-> input_folder_path] \in out_files'
             /\ \A f \in out_files' \ out_files :
                  f.dir = PathOf(roi_k) /\ f.name \in expected]_vars

\* The third default ROI was copied: 300 files.
C10_Witness ==
    /\ RoiReturned
    /\ roi_k = 4
    /\ results[3].kind = "Copied"
    /\ results[3].count = 300
    /\ Cardinality(NamesIn(PathOf(3))) = 300

\* The input folder cannot be listed, or holds no .tif/.tiff file.
NoImages == NoListing(in_dirs[input_folder_path])

\* What a failing start_processing does: the matching error dialog, and
\* nothing else that the user can observe.
StartRefused ==
    /\ dialog' = (IF ListDirRaises(in_dirs[input_folder_path])
                  THEN "error_read_folder" ELSE "error_no_tiff")
    /\ image_files' = image_files
    /\ current_state' = current_state
    /\ distal_index' = distal_index
    /\ proximal_index' = proximal_index
    /\ viewer_window' = viewer_window
    /\ mark_button' = mark_button
    /\ slider_state' = slider_state
    /\ sessions' = sessions
    /\ pc' = "idle"

\* C11: when the input folder cannot be listed or holds no .tif/.tiff file,
\* start_processing shows an error, opens no selector and leaves image_files
\* and the selection state (phase, distal_index, proximal_index) as they were.
C11_PreconditionError ==
    (pc = "idle" /\ StartEnabled /\ NoImages) =>
        /\ ENABLED start_processing
        /\ ~ENABLED (start_processing /\ ~StartRefused)

\* start_processing failed on an empty folder while a selector with a marked
\* distal junction was open: the stack and the selection are still there.
C11_Witness ==
    /\ dialog = "error_no_tiff"
    /\ NoImages
    /\ image_files # <<>>
    /\ viewer_window = "open"
    /\ current_state = "SELECT_PROXIMAL"
    /\ distal_index = 1

\* C12: each time the selector is opened (open_image_viewer), also after a
\* completed, failed or abandoned session, the selection is fresh: the phase
\* is SELECT_DISTAL and distal_index and proximal_index are both unset (-1).
\* The selector is open in phase SELECT_DISTAL exactly from its opening to
\* the first mark.
C12_FreshSelection ==
    (viewer_window = "open" /\ current_state = "SELECT_DISTAL") =>
        (distal_index = -1 /\ proximal_index = -1)

\* C13: directory creation is idempotent. A run never fails because a
\* destination directory exists already; a run on a tree that holds the
\* result of an earlier run with the same stack, indices, input folder and
\* output root leaves the tree as it is; and no call of _copy_roi_files
\* removes a file or a directory: a file it does not copy stays as it is.
C13_IdempotentDirs ==
    /\ [](exc # "FileExistsError")
    /\ [][(/\ pc = "engine"
           /\ pc' = "engine"
           /\ roi_k' = roi_k + 1
           /\ results'[roi_k].kind = "Copied"
           /\ RoiInPlace(roi_k))
          => (out_files' = out_files /\ out_dirs' = out_dirs)]_vars
    /\ [][pc = "engine" =>
            /\ out_dirs \subseteq out_dirs'
            /\ \A f \in out_files :
                 \/ f \in out_files'
                 \/ /\ f.dir = PathOf(roi_k)
                    /\ [dir |-> f.dir, name |-> f.name,
                        from |-> input_folder_path] \in out_files']_vars

\* A second run with the indices of the first has copied the first ROI
\* again: its directory still holds the unrelated file next to the 50
\* copies, and the copies of the fourth ROI, which this run has not reached,
\* are in place from the first run.
C13_Witness ==
    /\ sessions = 2
    /\ pc = "engine"
    /\ roi_k = 2
    /\ results[1].kind = "Copied"
    /\ results[1].count = 50
    /\ UnrelatedFile \in out_files
    /\ PathOf(1) = UnrelatedFile.dir
    /\ Cardinality(NamesIn(PathOf(1))) = 51
    /\ InStack(4)
    /\ RoiInPlace(4)

\* The length of the extension of a filename: ".tif" or ".tiff" in any case
\* (0: the file has neither).
ExtensionLen(name) ==
    IF endswith(lower(name), <<".", "t", "i", "f", "f">>) THEN 5
    ELSE IF endswith(lower(name), <<".", "t", "i", "f">>) THEN 4
    ELSE 0

\* The slice number a filename stands for: the run of digits immediately
\* before its extension (-1: the file is no image or has no digit there).
SliceNumber(name) ==
    LET last == Len(name) - ExtensionLen(name)
        stops == {k \in 1..last : name[k] \notin Digits}
        first == IF stops = {} THEN 1
                 ELSE (CHOOSE k \in stops : \A x \in stops : x <= k) + 1
    IN IF ExtensionLen(name) = 0 \/ last = 0 \/ first > last THEN -1
       ELSE int(SubSeq(name, first, last))

\* The filenames of a stack that stand for a slice number have pairwise
\* distinct numbers.
DistinctNumbers(L) ==
    \A i, j \in 1..Len(L) :
        (i # j /\ SliceNumber(L[i]) >= 0) => SliceNumber(L[i]) # SliceNumber(L[j])

\* The files of stack L that stand for a slice number are in strictly
\* increasing order of that number.
IncreasingNumbers(L) ==
    \A i, j \in 1..Len(L) :
        (i < j /\ SliceNumber(L[i]) >= 0 /\ SliceNumber(L[j]) >= 0)
            => SliceNumber(L[i]) < SliceNumber(L[j])

\* C14: on the stacks made of the names of SortNames, filenames with
\* pairwise distinct slice numbers are listed in strictly increasing order
\* of the slice number, and every filename without a number comes before
\* every filename with one.
C14_SortedBySliceNumber ==
    (Range(image_files) \subseteq SortNames /\ DistinctNumbers(image_files)) =>
        /\ IncreasingNumbers(image_files)
        /\ \A i, j \in 1..Len(image_files) :
             (i < j /\ SliceNumber(image_files[j]) = -1)
                 => SliceNumber(image_files[i]) = -1

\* The selector was opened on a folder listed as a9.tif2.tif, b3.tif: the
\* stack is b3.tif (slice number 3, key 3), a9.tif2.tif (slice number 2,
\* key 9).
C14_Witness ==
    /\ viewer_window = "open"
    /\ input_folder_path = LargeFolder
    /\ in_dirs[LargeFolder].kind = "listing"
    /\ in_dirs[LargeFolder].files =
           << <<"a", "9", ".", "t", "i", "f", "2", ".", "t", "i", "f">>,
              <<"b", "3", ".", "t", "i", "f">> >>
    /\ image_files =
           << <<"b", "3", ".", "t", "i", "f">>,
              <<"a", "9", ".", "t", "i", "f", "2", ".", "t", "i", "f">> >>
    /\ SliceNumber(image_files[1]) = 3
    /\ SliceNumber(image_files[2]) = 2
    /\ sort_key(image_files[1]) = 3
    /\ sort_key(image_files[2]) = 9

\* C15: an ordering violation is recoverable. In SELECT_DISTAL a mark on any
\* slice is accepted as distal_index; a rejected proximal mark leaves
\* distal_index, the phase and the selector as they are and does not invoke
\* the engine; and after it, as before, a mark on a slice j > distal_index
\* is accepted and invokes the engine, a mark on j <= distal_index is not.
C15_OrderingRecoverable ==
    /\ []((MarkEnabled /\ current_state = "SELECT_DISTAL") =>
            \A i \in SliderPositions(Len(image_files)) :
                /\ ENABLED (/\ mark_slice
                            /\ distal_index' = i
                            /\ current_state' = "SELECT_PROXIMAL"
                            /\ pc' = "idle")
                /\ ~ENABLED (mark_slice /\ current_state' = "SELECT_DISTAL"))
    /\ []((MarkEnabled /\ current_state = "SELECT_PROXIMAL") =>
            \A j \in SliderPositions(Len(image_files)) :
                IF j > distal_index
                THEN /\ ENABLED (/\ mark_slice
                                 /\ proximal_index' = j
                                 /\ distal_index' = distal_index
                                 /\ pc' = "engine")
                     /\ ~ENABLED (/\ mark_slice
                                  /\ proximal_index' = j
                                  /\ pc' = "idle")
                ELSE ~ENABLED (/\ mark_slice
                               /\ proximal_index' = j
                               /\ pc' = "engine"))
    /\ [][(/\ MarkEnabled
           /\ current_state = "SELECT_PROXIMAL"
           /\ sessions' = sessions
           /\ pc' = "idle")
          => /\ distal_index' = distal_index
             /\ current_state' = "SELECT_PROXIMAL"
             /\ engine_calls' = engine_calls
             /\ image_files' = image_files
             /\ MarkEnabled']_vars

\* A proximal mark on slice 0 was rejected after the distal junction was
\* marked on slice 1 of a stack of 3 or more: slice 2 can still be marked.
C15_Witness ==
    /\ MarkEnabled
    /\ current_state = "SELECT_PROXIMAL"
    /\ dialog = "warning_order"
    /\ distal_index = 1
    /\ proximal_index = 0
    /\ Len(image_files) >= 3
    /\ engine_calls = 0

\* C16: while process_all_rois runs, from the accepted proximal mark to its
\* return, the Mark button and the slider are disabled (they are before the
\* first ROI is processed), no mark can be made, and no step changes the
\* selection or the stack: every step is the next ROI copy, the report or
\* the error.
C16_NoMarkDuringBatch ==
    /\ [](EngineRunning =>
            /\ mark_button = "disabled"
            /\ slider_state = "disabled"
            /\ ~ENABLED mark_slice
            /\ ~ENABLED start_processing)
    /\ [][EngineRunning =>
            /\ distal_index' = distal_index
            /\ proximal_index' = proximal_index
            /\ current_state' = current_state
            /\ image_files' = image_files
            /\ \/ roi_k' = roi_k + 1 /\ pc' = "engine"
               \/ roi_k' = roi_k /\ pc' = "raised"
               \/ pc' = "idle"]_vars

\* The batch is between its second and its third ROI copy, the first ROI
\* copied, with the controls disabled.
C16_Witness ==
    /\ pc = "engine"
    /\ roi_k = 3
    /\ Len(all_roi_configs) = 4
    /\ results[1].kind = "Copied"
    /\ mark_button = "disabled"
    /\ slider_state = "disabled"

\* C17: in every interleaving of the operator's events, the folder the range
\* engine copies from (and names the destination after) is the folder whose
\* listing is the stack of the selector session.
C17_EngineUsesListedFolder ==
    EngineRunning => input_folder_path = listed_folder

\* The number of files an ROI definition asks for.
ConfiguredCount(cfg) == IF cfg.base = "proximal" THEN cfg.count ELSE cfg.copy

\* C18: with the four default ROI definitions every call of _copy_roi_files
\* that returns is all or nothing: it returns Skipped and leaves the output
\* tree as it is, or it returns Copied and has copied exactly the configured
\* number of files (50, 50, 300, 50); a range that does not fit wholly in
\* the stack is Skipped. A proximal ROI is skipped only with start < 0 (its
\* end is within the stack), a distal ROI only with end > len (its start is
\* not negative).
C18_AllOrNothing ==
    [][(/\ pc = "engine"
        /\ pc' = "engine"
        /\ roi_k' = roi_k + 1
        /\ all_roi_configs = DefaultRoiConfigs)
       => LET cfg == all_roi_configs[roi_k]
              r == results'[roi_k]
              len == Len(image_files)
              copies == {f \in out_files' :
                            /\ f.dir = PathOf(roi_k)
                            /\ f.from = input_folder_path
                            /\ \E i \in start_index' .. (end_index' - 1) :
                                 i \in 0 .. (len - 1)
                                     /\ f.name = image_files[i + 1]}
          IN /\ r.kind \in {"Skipped", "Copied"}
             /\ (start_index' < 0 \/ end_index' > len) => r.kind = "Skipped"
             /\ r.kind = "Skipped" =>
                  /\ out_files' = out_files
                  /\ out_dirs' = out_dirs
                  /\ r.count = 0
                  /\ cfg.base = "proximal" =>
                       (start_index' < 0 /\ end_index' <= len)
                  /\ cfg.base = "distal" =>
                       (end_index' > len /\ start_index' >= 0)
             /\ r.kind = "Copied" =>
                  /\ r.count = ConfiguredCount(cfg)
                  /\ r.count = <<50, 50, 300, 50>>[roi_k]
                  /\ Cardinality(copies) = r.count
                  /\ start_index' >= 0
                  /\ end_index' <= len]_vars

\* On the stack of 120 slices the first ROI was skipped although its range
\* [100, 150) starts inside the stack, and no file was copied for it; the
\* fourth ROI was copied whole.
C18_Witness ==
    /\ LoopDone
    /\ Len(image_files) = ShortStack
    /\ distal_index = 49
    /\ results[1].kind = "Skipped"
    /\ NamesIn(PathOf(1)) = {}
    /\ results[4].kind = "Copied"
    /\ results[4].count = 50
    /\ Cardinality(NamesIn(PathOf(4))) = 50

\* C19: when start_processing opens the selector again while a session is
\* open, the selector is back in SELECT_DISTAL, and the distal_index and
\* proximal_index the range engine works on were both marked in the selector
\* that is open: no index marked in an abandoned session reaches the engine.
C19_RestartDiscardsMarks ==
    /\ [](EngineRunning => (distal_at = sessions /\ proximal_at = sessions))
    /\ []((MarkEnabled /\ current_state = "SELECT_PROXIMAL") =>
            distal_at = sessions)
    /\ [][sessions' = sessions + 1 =>
            /\ current_state' = "SELECT_DISTAL"
            /\ MarkEnabled'
            /\ pc' = "idle"
            /\ engine_calls' = 0]_vars

\* The selector was opened a second time while the first one was waiting
\* for the proximal mark, after a rejected one: both indices of the
\* abandoned session are still stored, and the phase is SELECT_DISTAL.
C19_Witness ==
    /\ sessions = 2
    /\ MarkEnabled
    /\ current_state = "SELECT_DISTAL"
    /\ distal_at = 1
    /\ proximal_at = 1
    /\ distal_index = 1
    /\ proximal_index = 0

====
